---- MODULE Spec2Model ----
(***************************************************************************)
(* A model of the NOAA weather plugin: station metadata lookup and its      *)
(* cache (_stations.py), the flattening of an observations response into    *)
(* equal-length columns (fetch_station_data, both versions), and the sync   *)
(* handler of __init__.py with its column reconciliation, float cast,       *)
(* pipe bootstrap, per-station sync loop and summary, the interactive       *)
(* ask_for_stations dialogue, and get_stations (both versions).             *)
(*                                                                         *)
(* Python values are modelled by strings: None is "None", a missing dict    *)
(* key is "<absent>".  A dict, whose iteration order Python keeps, is a     *)
(* record [keys, vals]: the keys in insertion order and the value of each.  *)
(***************************************************************************)
EXTENDS Integers, Sequences, FiniteSets, TLC

VARIABLES
    \* ---- sync (__init__.py) ----
    pc,            \* position of the sync call
    registry,      \* pipe.parameters: the 'noaa' -> 'stations' dictionary
    pipeColumns,   \* pipe.columns is set
    pipeExists,    \* pipe.exists()
    editCalls,     \* number of pipe.edit calls made
    begin,         \* sync's begin argument (hours, or None)
    stations,      \* sync's local: the dictionary get_stations returned
    fetched,       \* do_fetch results so far: station -> outcome
    dataframes,    \* sync's local dataframes, after the cast loop
    common_cols,   \* sync's local common_cols
    float_cols,    \* sync's local float_cols
    syncCalls,     \* the pipe.sync calls made, in order
    success_dict,  \* sync's local success_dict
    result,        \* what sync returned
    \* ---- one call of fetch_station_data ----
    call,          \* the arguments and the API response of the call
    out,           \* what the call did and returned
    \* ---- get_station_info (_stations.py) ----
    cache,         \* _stations_info_cache
    httpCount,     \* GET requests issued per station
    lastCall,      \* the last get_station_info call and its return value
    \* ---- ask_for_stations ----
    askPc,         \* position of the ask_for_stations call
    askStations,   \* its local: the stations collected in the current round
    askRound,      \* number of restarts so far (depth of the recursion)
    askLast,       \* the user's last answer and what it was about
    askEntered,    \* the inputs of the current round, with the stations each one named
    askParameters, \* pipe.parameters of the pipe asked about: its 'noaa' registry
    \* ---- one call of get_stations ----
    getVersion,    \* 1: __init__.py, 2: _stations.py
    getParameters, \* pipe.parameters of the pipe read: its 'noaa' registry
    getEdits,      \* number of pipe.edit calls the call made
    getOut         \* what the call returned

vars == <<pc, registry, pipeColumns, pipeExists, editCalls, begin, stations,
          fetched, dataframes, common_cols, float_cols, syncCalls,
          success_dict, result, call, out, cache, httpCount, lastCall,
          askPc, askStations, askRound, askLast, askEntered, askParameters,
          getVersion, getParameters, getEdits, getOut>>

syncVars == <<pc, registry, pipeColumns, pipeExists, editCalls, begin, stations,
              fetched, dataframes, common_cols, float_cols, syncCalls,
              success_dict, result>>
fetchVars == <<call, out>>
infoVars == <<cache, httpCount, lastCall>>
askVars == <<askPc, askStations, askRound, askLast, askEntered, askParameters>>
getVars == <<getVersion, getParameters, getEdits, getOut>>

---------------------------------------------------------------------------
(* Bounds of the model. *)
MaxStations == 2
MaxRecords == 2
MaxCalls == 3

---------------------------------------------------------------------------
(* Python values. *)
None == "None"
Absent == "<absent>"

Range(s) == {s[i] : i \in 1..Len(s)}

AllStationIDs == <<"KATL", "KCEU", "KGMU", "KAHN">>
StationIDs == SubSeq(AllStationIDs, 1, MaxStations)
StationSet == Range(StationIDs)

StationName(s) ==
    CASE s = "KATL" -> "Atlanta"
      [] s = "KCEU" -> "Clemson"
      [] s = "KGMU" -> "Greenville"
      [] OTHER -> "Athens"

(* A dict in insertion order. *)
EmptyDict == [keys |-> <<>>, vals |-> <<>>]
DictHas(d, k) == k \in Range(d.keys)
DictSet(d, k, v) ==
    IF DictHas(d, k)
    THEN [d EXCEPT !.vals = [x \in DOMAIN d.vals |-> IF x = k THEN v ELSE d.vals[x]]]
    ELSE [keys |-> Append(d.keys, k), vals |-> (k :> v) @@ d.vals]

---------------------------------------------------------------------------
(* JSON values of the API's observation records.  A property value is       *)
(* null, a string, or an object {value, unitCode} either of whose keys may  *)
(* be missing.                                                              *)
JNull == [kind |-> "null", value |-> None, unit |-> Absent]
JStr(s) == [kind |-> "str", value |-> s, unit |-> Absent]
JObj(v, u) == [kind |-> "dict", value |-> v, unit |-> u]

(* Python truthiness: `not v`. *)
Truthy(v) ==
    CASE v.kind = "null" -> FALSE
      [] v.kind = "str" -> v.value # ""
      [] OTHER -> v.value # Absent \/ v.unit # Absent

StationURL(s) == "https://api.weather.gov/stations/" \o s

(* v.split('/')[-1] of a station URL. *)
LastSegment(url) ==
    IF \E s \in Range(AllStationIDs) : StationURL(s) = url
    THEN CHOOSE s \in Range(AllStationIDs) : StationURL(s) = url
    ELSE url

(* str.replace(old, '') on a unit code: only an exact, case-sensitive       *)
(* occurrence of old is removed.                                            *)
Replace(u, old) ==
    CASE u = "unit:degC" /\ old = "unit:" -> "degC"
      [] u = "wmoUnit:degC" /\ old = "wmoUnit:" -> "degC"
      [] u = "wmoUnit:degC" /\ old = "unit:" -> "wmoUnit:degC"
      [] OTHER -> u

(* json.dumps of a station's geometry. *)
JsonDumps(g) == "json:" \o g

(* d[col].append(val), creating the list first when col is new. *)
Grow(d, col, val) ==
    IF DictHas(d, col) THEN DictSet(d, col, Append(d.vals[col], val))
    ELSE DictSet(d, col, <<val>>)

(* The failure of a flattening step: an exception left the loop. *)
Raised == [keys |-> <<"<raised>">>, vals |-> <<>>]

(* One property of one record, __init__.py. *)
FlattenProperty(d, col, v) ==
    IF d = Raised THEN Raised
    ELSE IF ~Truthy(v) THEN d
    ELSE IF col = "timestamp" THEN Grow(d, col, v.value)
    ELSE IF col = "station" THEN
        IF v.kind = "str" THEN Grow(d, col, LastSegment(v.value)) ELSE Raised
    ELSE IF v.kind # "dict" THEN d
    ELSE IF v.value = Absent THEN d
    ELSE Grow(d,
              IF v.unit # Absent
              THEN col \o " (" \o Replace(v.unit, "unit:") \o ")"
              ELSE col,
              v.value)

RECURSIVE FlattenProperties(_, _, _)
FlattenProperties(d, props, i) ==
    IF i > Len(props) THEN d
    ELSE FlattenProperties(FlattenProperty(d, props[i].col, props[i].v), props, i + 1)

(* One record of data['features'], __init__.py: record['properties'] raises *)
(* when the record has no properties.                                       *)
FlattenRecord(d, record, info) ==
    IF d = Raised \/ ~record.hasProperties THEN Raised
    ELSE FlattenProperties(
            Grow(Grow(d, "location", info.name),
                 "geometry",
                 IF info.geometry # Absent THEN JsonDumps(info.geometry) ELSE None),
            record.properties, 1)

RECURSIVE FlattenFeatures(_, _, _, _)
FlattenFeatures(d, features, info, i) ==
    IF i > Len(features) THEN d
    ELSE FlattenFeatures(FlattenRecord(d, features[i], info), features, info, i + 1)

---------------------------------------------------------------------------
(* "Normalize the lengths": the same code in both versions. *)

(* klens: each key's column length, in d's order. *)
Klens(d) == [keys |-> d.keys, vals |-> [k \in Range(d.keys) |-> Len(d.vals[k])]]

(* lens: how many keys have each length, in order of first appearance. *)
RECURSIVE LensFrom(_, _, _)
LensFrom(klens, lens, i) ==
    IF i > Len(klens.keys) THEN lens
    ELSE LET l == klens.vals[klens.keys[i]]
             lens0 == IF DictHas(lens, l) THEN lens ELSE DictSet(lens, l, 0)
         IN LensFrom(klens, DictSet(lens0, l, lens0.vals[l] + 1), i + 1)

(* A variant of Lens: the lengths are kept in ascending order instead of in  *)
(* the order of their first appearance.                                     *)
Lens_Ascending(klens) ==
    LET lens == LensFrom(klens, EmptyDict, 1)
        top == IF lens.keys = <<>> THEN 0
               ELSE CHOOSE l \in Range(lens.keys) : \A m \in Range(lens.keys) : m <= l
    IN [keys |-> SelectSeq([i \in 1..(top + 1) |-> i - 1], LAMBDA l : l \in Range(lens.keys)),
        vals |-> lens.vals]

Lens(klens) == LensFrom(klens, EmptyDict, 1)

(* A variant of Better: an equal count replaces the maximum too, so that    *)
(* the last of several most common lengths wins.                            *)
Better_OrEqual(c, max_c) == c >= max_c

(* The loop over lens.items(): a strictly larger count replaces the maximum. *)
Better(c, max_c) == c > max_c

RECURSIVE MaxFrom(_, _, _)
MaxFrom(lens, m, i) ==
    IF i > Len(lens.keys) THEN m
    ELSE LET l == lens.keys[i]
             c == lens.vals[l]
         IN MaxFrom(lens, IF Better(c, m.max_c) THEN [max_l |-> l, max_c |-> c] ELSE m, i + 1)

(* A variant of MaxL: the longest length instead of the most common one.    *)
MaxL_Longest(lens) ==
    IF lens.keys = <<>> THEN 0
    ELSE CHOOSE l \in Range(lens.keys) : \A m \in Range(lens.keys) : m <= l

MaxL(lens) == MaxFrom(lens, [max_l |-> 0, max_c |-> 0], 1).max_l

NormKeys(d) ==
    LET klens == Klens(d)
        max_l == MaxL(Lens(klens))
    IN SelectSeq(d.keys, LAMBDA k : klens.vals[k] = max_l)

Normalize(d) ==
    LET norm_keys == NormKeys(d)
    IN [keys |-> norm_keys, vals |-> [k \in Range(norm_keys) |-> d.vals[k]]]

---------------------------------------------------------------------------
(* Times are whole hours; an optional time is <<>> (None) or <<t>>.         *)
NoTime == <<>>
Some(t) == <<t>>

(* sync_time.replace(tzinfo=UTC).isoformat(): the request's start string.   *)
IsoFormat(t) == [hours |-> t, tzinfo |-> "UTC"]

(* A dataframe: None, or the columns in order with their values.            *)
NoneDF == [none |-> TRUE, columns |-> <<>>, data |-> <<>>]
DataFrame(d) == [none |-> FALSE, columns |-> d.keys, data |-> d.vals]
Rows(df) == IF df.columns = <<>> THEN 0 ELSE Len(df.data[df.columns[1]])

(* parse_df_datetimes (meerschaum): the ISO strings of a column become      *)
(* timestamps; the columns and the number of rows are kept.                 *)
IsIsoString(v) == v \in {"2024-01-01T00:00:00+00:00", "2024-01-01T01:00:00+00:00"}
ParseDatetime(v) == IF IsIsoString(v) THEN "Timestamp(" \o v \o ")" ELSE v
ParseDfDatetimes(df) ==
    [df EXCEPT !.data = [c \in DOMAIN df.data |->
                            [i \in 1..Len(df.data[c]) |-> ParseDatetime(df.data[c][i])]]]

(* Lines 368-376 of __init__.py: the start of the request's window.         *)
(* (begin or get_sync_time(...)) - 24h; any exception leaves start None.     *)
HoursBack == 24

(* A variant of StartOf: a missing time counts as hour 0 instead of         *)
(* leaving the start None.                                                  *)
StartOf_DefaultsToEpoch(beginArg, syncTime) ==
    LET base == IF beginArg # NoTime THEN beginArg
                ELSE IF syncTime.raised \/ syncTime.value = NoTime THEN Some(0)
                ELSE syncTime.value
    IN Some(IsoFormat(base[1] - HoursBack))

StartBase(beginArg, syncTime) ==
    IF beginArg # NoTime THEN [raised |-> FALSE, value |-> beginArg] ELSE syncTime
StartOf(beginArg, syncTime) ==
    LET base == StartBase(beginArg, syncTime)
    IN IF base.raised \/ base.value = NoTime THEN NoTime
       ELSE Some(IsoFormat(base.value[1] - HoursBack))

(* What a call of fetch_station_data did: whether it raised, the request it *)
(* issued (if any) with its start, the flattened dictionary d, the          *)
(* normalized norm_d and the value returned.                                *)
FetchOut(raised, requested, start, d, norm_d, df) ==
    [raised |-> raised, requested |-> requested, start |-> start,
     d |-> d, norm_d |-> norm_d, df |-> df]

(* fetch_station_data of __init__.py. *)
fetch_station_data(stationID, info, syncTime, beginArg, response) ==
    LET start == StartOf(beginArg, syncTime)
        d == FlattenFeatures(EmptyDict, response.features, info, 1)
        norm_d == Normalize(d)
    IN  IF info.name = Absent
        THEN \* the first print reads info['name']
             FetchOut(TRUE, FALSE, start, EmptyDict, EmptyDict, NoneDF)
        ELSE IF response.kind \in {"exception", "not_json"}
        THEN FetchOut(FALSE, TRUE, start, EmptyDict, EmptyDict, NoneDF)
        ELSE IF ~response.hasFeatures
        THEN FetchOut(FALSE, TRUE, start, EmptyDict, EmptyDict, NoneDF)
        ELSE IF d = Raised
        THEN FetchOut(TRUE, TRUE, start, EmptyDict, EmptyDict, NoneDF)
        ELSE FetchOut(FALSE, TRUE, start, d, norm_d, ParseDfDatetimes(DataFrame(norm_d)))

(* do_fetch: an exception of fetch_station_data is caught, and the warning  *)
(* then reads info['name'], which raises again when the name is missing.    *)
do_fetch(stationID, info, syncTime, beginArg, response) ==
    LET r == fetch_station_data(stationID, info, syncTime, beginArg, response)
    IN  IF ~r.raised THEN [raised |-> FALSE, df |-> r.df]
        ELSE IF info.name = Absent THEN [raised |-> TRUE, df |-> NoneDF]
        ELSE [raised |-> FALSE, df |-> NoneDF]

---------------------------------------------------------------------------
(* Column reconciliation and the float cast of sync.                        *)

(* The code points of the column names, for Python's string comparison.     *)
Codes ==
    "geometry" :> <<103, 101, 111, 109, 101, 116, 114, 121>> @@
    "label" :> <<108, 97, 98, 101, 108>> @@
    "location" :> <<108, 111, 99, 97, 116, 105, 111, 110>> @@
    "station" :> <<115, 116, 97, 116, 105, 111, 110>> @@
    "timestamp" :> <<116, 105, 109, 101, 115, 116, 97, 109, 112>> @@
    "temperature" :> <<116, 101, 109, 112, 101, 114, 97, 116, 117, 114, 101>> @@
    "temperature (degC)" :> <<116, 101, 109, 112, 101, 114, 97, 116, 117, 114, 101, 32, 40, 100, 101, 103, 67, 41>> @@
    "temperature (wmoUnit:degC)" :> <<116, 101, 109, 112, 101, 114, 97, 116, 117, 114, 101, 32, 40, 119, 109, 111, 85, 110, 105, 116, 58, 100, 101, 103, 67, 41>>

(* Python's str.__lt__: the first differing code point decides, and a       *)
(* proper prefix is smaller.                                                *)
RECURSIVE LexLessFrom(_, _, _)
LexLessFrom(a, b, i) ==
    IF i > Len(b) THEN FALSE
    ELSE IF i > Len(a) THEN TRUE
    ELSE IF a[i] # b[i] THEN a[i] < b[i]
    ELSE LexLessFrom(a, b, i + 1)

StrLess(x, y) == LexLessFrom(Codes[x], Codes[y], 1)

(* list.sort() of a list of distinct strings. *)
RECURSIVE Sort(_)
Sort(S) ==
    IF S = {} THEN <<>>
    ELSE LET m == CHOOSE x \in S : \A y \in S \ {x} : StrLess(x, y)
         IN <<m>> \o Sort(S \ {m})

(* Lines 253-268: the loop over dataframes.items() that keeps the common    *)
(* columns; acc is None (none |-> TRUE) until the first non-empty table.    *)
(* A variant of SkipsTable: only None is skipped, so that a table without   *)
(* columns takes part in the intersection.                                  *)
SkipsTable_OnlyNone(df) == df.none

SkipsTable(df) == df.none \/ Len(df.columns) = 0

RECURSIVE CommonFrom(_, _, _)
CommonFrom(dfs, acc, i) ==
    IF i > Len(dfs.keys) THEN acc
    ELSE LET df == dfs.vals[dfs.keys[i]]
         IN CommonFrom(dfs,
                IF SkipsTable(df) THEN acc
                ELSE IF acc.none THEN [none |-> FALSE, cols |-> Range(df.columns)]
                ELSE [none |-> FALSE, cols |-> acc.cols \cap Range(df.columns)],
                i + 1)

CommonCols(dfs) ==
    LET acc == CommonFrom(dfs, [none |-> TRUE, cols |-> {}], 1)
    IN Sort(IF acc.none THEN {} ELSE acc.cols)

(* A variant of non_float_cols: 'station' is missing from the set.          *)
non_float_cols_WithoutStation == {"label", "timestamp", "location", "geometry"}

(* Line 273. *)
non_float_cols == {"label", "timestamp", "station", "location", "geometry"}

(* Line 274. *)
FloatCols(common) == Sort(Range(common) \ non_float_cols)

(* astype('float') of one value: a number becomes a float, None becomes     *)
(* NaN, any other string raises ValueError.                                 *)
IsNumber(v) == v \in {"21", "22"}
Castable(v) == IsNumber(v) \/ v = None
CastFloat(v) == IF v = None THEN "nan" ELSE v \o ".0"

(* Lines 284-285 for one table: df[common_cols] raises KeyError when a      *)
(* column is missing, the cast raises on a value that is no number; either  *)
(* way line 294 makes the table None.                                       *)
SelectAndCast(df, common, floats) ==
    IF \E c \in Range(common) : c \notin Range(df.columns) THEN NoneDF
    ELSE IF \E c \in Range(floats) : \E i \in 1..Len(df.data[c]) : ~Castable(df.data[c][i])
    THEN NoneDF
    ELSE [none |-> FALSE,
          columns |-> common,
          data |-> [c \in Range(common) |->
                      IF c \in Range(floats)
                      THEN [i \in 1..Len(df.data[c]) |-> CastFloat(df.data[c][i])]
                      ELSE df.data[c]]]

(* Lines 277-296: only a table that is not None gets an entry.              *)
RECURSIVE CastFrom(_, _, _, _, _)
CastFrom(dfs, common, floats, acc, i) ==
    IF i > Len(dfs.keys) THEN acc
    ELSE LET s == dfs.keys[i]
             df == dfs.vals[s]
         IN CastFrom(dfs, common, floats,
                IF df.none THEN acc ELSE DictSet(acc, s, SelectAndCast(df, common, floats)),
                i + 1)

CastAll(dfs, common, floats) == CastFrom(dfs, common, floats, EmptyDict, 1)

---------------------------------------------------------------------------
(* Station metadata.  A station's info dictionary is [name, geometry], a    *)
(* missing key being Absent; {} is NoInfo.                                  *)
NoInfo == [name |-> Absent, geometry |-> Absent]

(* str.rstrip() of a station name as the API returns it. *)
RStrip(x) ==
    IF \E s \in Range(AllStationIDs) : x = StationName(s) \o " "
    THEN StationName(CHOOSE s \in Range(AllStationIDs) : x = StationName(s) \o " ")
    ELSE x

(* The answers of GET /stations/<id>: an error status, or a JSON object     *)
(* with or without properties.name and geometry.                            *)
InfoResponses(s) ==
    {[ok |-> FALSE, name |-> Absent, geometry |-> Absent]} \cup
    [ok : {TRUE}, name : {Absent, StationName(s), StationName(s) \o " "},
     geometry : {Absent, "Point"}]

(* get_station_info of __init__.py (no cache). *)
get_station_info(stationID, response) ==
    IF ~response.ok THEN NoInfo
    ELSE IF response.name = Absent THEN NoInfo
    ELSE [name |-> RStrip(response.name), geometry |-> response.geometry]

(* pipe.parameters: the 'noaa' key may be missing; its 'stations' entry is  *)
(* a dict of infos or a list of station IDs.                                *)
NoRegistry == [present |-> FALSE, isList |-> FALSE, keys |-> <<>>, vals |-> <<>>]
DictRegistry(d) == [present |-> TRUE, isList |-> FALSE, keys |-> d.keys, vals |-> d.vals]
ListRegistry(ids) == [present |-> TRUE, isList |-> TRUE, keys |-> ids, vals |-> <<>>]

(* Lines 154-156: the dictionary get_stations works on. *)
StationsDict(reg) ==
    IF ~reg.present THEN EmptyDict
    ELSE IF reg.isList THEN [keys |-> reg.keys, vals |-> [s \in Range(reg.keys) |-> NoInfo]]
    ELSE [keys |-> reg.keys, vals |-> reg.vals]

NeedsLookup(d) == {s \in Range(d.keys) : d.vals[s].name = Absent}

(* A variant of get_stations: the pipe is written and edited only when a     *)
(* lookup changed a station's entry.                                        *)
get_stations_EditsOnChange(reg, lookup) ==
    LET d == StationsDict(reg)
        filled == [keys |-> d.keys,
                   vals |-> [s \in Range(d.keys) |->
                               IF s \in NeedsLookup(d)
                               THEN get_station_info(s, lookup[s])
                               ELSE d.vals[s]]]
        edit == filled # d
        reg2 == IF edit THEN DictRegistry(filled) ELSE reg
    IN [registry |-> reg2,
        edit |-> edit,
        none |-> ~reg2.present,
        isList |-> reg2.isList,
        ret |-> [keys |-> reg2.keys, vals |-> reg2.vals]]

(* get_stations of __init__.py: every station without a name is looked up;  *)
(* lookup gives the API's answer per station.  It returns the registry it   *)
(* leaves, whether it wrote and edited the pipe, and its return value       *)
(* (none: the 'noaa' key is missing and None is returned; isList: the       *)
(* untouched, hence empty, list is returned).                               *)
get_stations(reg, lookup) ==
    LET d == StationsDict(reg)
        edit == NeedsLookup(d) # {}
        filled == [keys |-> d.keys,
                   vals |-> [s \in Range(d.keys) |->
                               IF s \in NeedsLookup(d)
                               THEN get_station_info(s, lookup[s])
                               ELSE d.vals[s]]]
        reg2 == IF edit THEN DictRegistry(filled) ELSE reg
    IN [registry |-> reg2,
        edit |-> edit,
        none |-> ~reg2.present,
        isList |-> reg2.isList,
        ret |-> [keys |-> reg2.keys, vals |-> reg2.vals]]

---------------------------------------------------------------------------
(* The inputs of the sync model.                                            *)

Timestamp1 == "2024-01-01T00:00:00+00:00"
UnitCode == "wmoUnit:degC"

Prop(col, v) == [col |-> col, v |-> v]
Record(props) == [hasProperties |-> TRUE, properties |-> props]
NoProperties == [hasProperties |-> FALSE, properties |-> <<>>]

(* The observation records a station answers with during sync.              *)
SyncRecords(s) ==
    { NoProperties,
      Record(<<>>),
      Record(<<Prop("timestamp", JStr(Timestamp1)), Prop("station", JStr(StationURL(s)))>>),
      Record(<<Prop("timestamp", JStr(Timestamp1)), Prop("station", JStr(StationURL(s))),
               Prop("temperature", JObj("21", UnitCode))>>),
      Record(<<Prop("timestamp", JStr(Timestamp1)), Prop("station", JStr(StationURL(s))),
               Prop("temperature", JObj("n/a", UnitCode))>>) }

SeqsUpTo(S, n) == UNION {[1..k -> S] : k \in 0..n}

ResponseException == [kind |-> "exception", hasFeatures |-> FALSE, features |-> <<>>]
ResponseNotJson == [kind |-> "not_json", hasFeatures |-> FALSE, features |-> <<>>]
ResponseNoFeatures == [kind |-> "json", hasFeatures |-> FALSE, features |-> <<>>]
ResponseOf(features) == [kind |-> "json", hasFeatures |-> TRUE, features |-> features]

(* During sync a station's request fails, or answers with no 'features',   *)
(* with an empty list of records or with one record.                        *)
SyncResponses(s) ==
    {ResponseException, ResponseNotJson, ResponseNoFeatures, ResponseOf(<<>>)} \cup
    {ResponseOf(<<r>>) : r \in SyncRecords(s)}

(* What pipe.get_sync_time gives: it raises, or returns None or a time.     *)
SyncTimeRaises == [raised |-> TRUE, value |-> NoTime]
SyncTimes == {SyncTimeRaises, [raised |-> FALSE, value |-> NoTime],
              [raised |-> FALSE, value |-> Some(48)]}
Begins == {NoTime, Some(30)}

Infos(s) == {NoInfo, [name |-> StationName(s), geometry |-> Absent],
             [name |-> StationName(s), geometry |-> "Point"]}

(* The registries a pipe can hold: none, a list of IDs, or a dict whose     *)
(* stations have their metadata or not.                                     *)
Prefixes == {SubSeq(StationIDs, 1, k) : k \in 0..MaxStations}
Registries ==
    {NoRegistry} \cup {ListRegistry(ids) : ids \in Prefixes} \cup
    UNION {{DictRegistry([keys |-> ids, vals |-> v]) :
              v \in {f \in [Range(ids) -> UNION {Infos(s) : s \in Range(ids)}] :
                        \A s \in Range(ids) : f[s] \in Infos(s)}} : ids \in Prefixes}

---------------------------------------------------------------------------
(* sync of __init__.py.                                                     *)

NotFetched == [done |-> FALSE, raised |-> FALSE, df |-> NoneDF]
NoResult == [returned |-> FALSE, ok |-> FALSE, total |-> 0, failed |-> 0]

InitSync ==
    /\ pc = "start"
    /\ registry \in Registries
    /\ pipeColumns \in BOOLEAN
    /\ pipeExists \in BOOLEAN
    /\ editCalls = 0
    /\ begin \in Begins
    /\ stations = EmptyDict
    /\ fetched = <<>>
    /\ dataframes = EmptyDict
    /\ common_cols = <<>>
    /\ float_cols = <<>>
    /\ syncCalls = <<>>
    /\ success_dict = EmptyDict
    /\ result = NoResult

(* Lines 225-243: the columns are set if missing, the stations are read     *)
(* (looking up those without a name), and the arguments are built, which    *)
(* raises when get_stations returned None or a list.                        *)
SyncStart ==
    /\ pc = "start"
    /\ \E lookup \in [StationSet -> UNION {InfoResponses(s) : s \in StationSet}] :
          /\ \A s \in StationSet : lookup[s] \in InfoResponses(s)
          /\ \A s \in StationSet \ NeedsLookup(StationsDict(registry)) :
                lookup[s] = [ok |-> FALSE, name |-> Absent, geometry |-> Absent]
          /\ LET g == get_stations(registry, lookup)
             IN /\ registry' = g.registry
                /\ editCalls' = editCalls + (IF pipeColumns THEN 0 ELSE 1)
                                          + (IF g.edit THEN 1 ELSE 0)
                /\ stations' = g.ret
                /\ pc' = IF g.none \/ g.isList THEN "raised" ELSE "fetch"
                /\ fetched' = [s \in Range(g.ret.keys) |-> NotFetched]
    /\ pipeColumns' = TRUE
    /\ UNCHANGED <<pipeExists, begin, dataframes, common_cols, float_cols,
                   syncCalls, success_dict, result>>

(* One task of pool.starmap(do_fetch, args): the tasks run in any order.    *)
DoFetch(s) ==
    /\ pc = "fetch"
    /\ s \in Range(stations.keys)
    /\ ~fetched[s].done
    /\ \E syncTime \in SyncTimes, response \in SyncResponses(s) :
          LET r == do_fetch(s, stations.vals[s], syncTime, begin, response)
          IN fetched' = [fetched EXCEPT ![s] = [done |-> TRUE, raised |-> r.raised, df |-> r.df]]
    /\ UNCHANGED <<pc, registry, pipeColumns, pipeExists, editCalls, begin, stations,
                   dataframes, common_cols, float_cols, syncCalls, success_dict, result>>

AllFetched == \A s \in Range(stations.keys) : fetched[s].done

(* The dictionary dict(pool.starmap(...)) builds, in the order of args.     *)
FetchedFrames == [keys |-> stations.keys, vals |-> [s \in Range(stations.keys) |-> fetched[s].df]]

(* Lines 244-296: starmap re-raises a task's exception; otherwise the       *)
(* common columns are computed and every table is selected and cast.        *)
Reconcile ==
    /\ pc = "fetch"
    /\ AllFetched
    /\ IF \E s \in Range(stations.keys) : fetched[s].raised
       THEN /\ pc' = "raised"
            /\ UNCHANGED <<dataframes, common_cols, float_cols>>
       ELSE LET common == CommonCols(FetchedFrames)
                floats == FloatCols(common)
            IN /\ common_cols' = common
               /\ float_cols' = floats
               /\ dataframes' = CastAll(FetchedFrames, common, floats)
               /\ pc' = "bootstrap"
    /\ UNCHANGED <<registry, pipeColumns, pipeExists, editCalls, begin, stations,
                   fetched, syncCalls, success_dict, result>>

(* df.head(1). *)
Head1(df) ==
    [df EXCEPT !.data = [c \in DOMAIN df.data |-> SubSeq(df.data[c], 1, 1)]]

(* A variant of FirstWithRow: the last such station instead of the first.   *)
FirstWithRow_Last(dfs, i) ==
    LET S == {j \in i..Len(dfs.keys) :
                ~dfs.vals[dfs.keys[j]].none /\ Rows(dfs.vals[dfs.keys[j]]) > 0}
    IN IF S = {} THEN 0 ELSE CHOOSE j \in S : \A k \in S : k <= j

(* The first station, in order, whose table is not None and has a row.      *)
RECURSIVE FirstWithRow(_, _)
FirstWithRow(dfs, i) ==
    IF i > Len(dfs.keys) THEN 0
    ELSE IF ~dfs.vals[dfs.keys[i]].none /\ Rows(dfs.vals[dfs.keys[i]]) > 0 THEN i
    ELSE FirstWithRow(dfs, i + 1)

SyncCall(kind, s, df, force, success) ==
    [kind |-> kind, station |-> s, df |-> df, force |-> force, success |-> success]

(* Lines 300-305: make sure the pipe exists.  pipe.sync's outcome is the    *)
(* host's: the call succeeds or not.                                        *)
Bootstrap ==
    /\ pc = "bootstrap"
    /\ pc' = "loop"
    /\ LET i == FirstWithRow(dataframes, 1)
       IN IF ~pipeExists /\ i > 0
          THEN \E success \in BOOLEAN :
                  /\ syncCalls' = Append(syncCalls,
                        SyncCall("bootstrap", dataframes.keys[i],
                                 Head1(dataframes.vals[dataframes.keys[i]]), TRUE, success))
                  /\ pipeExists' = success
          ELSE UNCHANGED <<syncCalls, pipeExists>>
    /\ UNCHANGED <<registry, pipeColumns, editCalls, begin, stations, fetched,
                   dataframes, common_cols, float_cols, success_dict, result>>

(* Lines 311-317, one iteration: the station's name is read for the         *)
(* message, then the table is synced unless it is None.                     *)
SyncStation ==
    /\ pc = "loop"
    /\ Len(success_dict.keys) < Len(dataframes.keys)
    /\ LET s == dataframes.keys[Len(success_dict.keys) + 1]
           df == dataframes.vals[s]
       IN IF stations.vals[s].name = Absent
          THEN /\ pc' = "raised"
               /\ UNCHANGED <<syncCalls, pipeExists, success_dict>>
          ELSE IF df.none
          THEN /\ success_dict' = DictSet(success_dict, s, FALSE)
               /\ UNCHANGED <<pc, syncCalls, pipeExists>>
          ELSE \E success \in BOOLEAN :
                  /\ syncCalls' = Append(syncCalls, SyncCall("station", s, df, FALSE, success))
                  /\ pipeExists' = (pipeExists \/ success)
                  /\ success_dict' = DictSet(success_dict, s, success)
                  /\ pc' = pc
    /\ UNCHANGED <<registry, pipeColumns, editCalls, begin, stations, fetched,
                   dataframes, common_cols, float_cols, result>>

(* Lines 319-330: the counts and the value returned.                        *)
(* A variant of Succeeded: every station of success_dict counts.            *)
Succeeded_CountsAll(sd) == Cardinality(Range(sd.keys))

Succeeded(sd) == Cardinality({s \in Range(sd.keys) : sd.vals[s]})
Failed(sd) == Cardinality({s \in Range(sd.keys) : ~sd.vals[s]})

Summary ==
    /\ pc = "loop"
    /\ Len(success_dict.keys) = Len(dataframes.keys)
    /\ pc' = "done"
    /\ result' = [returned |-> TRUE,
                  ok |-> Succeeded(success_dict) > 0,
                  total |-> Succeeded(success_dict) + Failed(success_dict),
                  failed |-> Failed(success_dict)]
    /\ UNCHANGED <<registry, pipeColumns, pipeExists, editCalls, begin, stations, fetched,
                   dataframes, common_cols, float_cols, syncCalls, success_dict>>

---------------------------------------------------------------------------
(* get_station_info of _stations.py, with _stations_info_cache (a dict).    *)
(* It gives the value returned, the cache it leaves and whether it issued   *)
(* the GET request.                                                         *)
CacheGet(c, stationID) == IF DictHas(c, stationID) THEN c.vals[stationID] ELSE NoInfo

(* A variant of cached_get_station_info: the answer is cached before it is  *)
(* known to hold a name.                                                    *)
cached_get_station_info_StoresFailures(c, stationID, response) ==
    LET station_info == CacheGet(c, stationID)
        found == get_station_info(stationID, response)
    IN  IF station_info # NoInfo
        THEN [ret |-> station_info, cache |-> c, requested |-> FALSE]
        ELSE [ret |-> found, cache |-> DictSet(c, stationID, found), requested |-> TRUE]

cached_get_station_info(c, stationID, response) ==
    LET station_info == CacheGet(c, stationID)
        found == get_station_info(stationID, response)
    IN  IF station_info # NoInfo
        THEN [ret |-> station_info, cache |-> c, requested |-> FALSE]
        ELSE IF found = NoInfo
        THEN [ret |-> NoInfo, cache |-> c, requested |-> TRUE]
        ELSE [ret |-> found, cache |-> DictSet(c, stationID, found), requested |-> TRUE]

(* get_stations of _stations.py: the stations without a name are looked up  *)
(* one after the other through the cache; the missing 'noaa' key gives {}.  *)
RECURSIVE StationsFillFrom(_, _, _, _, _)
StationsFillFrom(d, lookup, filled, c, i) ==
    IF i > Len(d.keys) THEN [dict |-> filled, cache |-> c.cache, requested |-> c.requested]
    ELSE LET s == d.keys[i]
             g == cached_get_station_info(c.cache, s, lookup[s])
         IN IF d.vals[s].name # Absent
            THEN StationsFillFrom(d, lookup, filled, c, i + 1)
            ELSE StationsFillFrom(d, lookup, DictSet(filled, s, g.ret),
                    [cache |-> g.cache,
                     requested |-> c.requested \cup (IF g.requested THEN {s} ELSE {})],
                    i + 1)

stations_get_stations(reg, c, lookup) ==
    LET d == StationsDict(reg)
        edit == NeedsLookup(d) # {}
        f == StationsFillFrom(d, lookup, d, [cache |-> c, requested |-> {}], 1)
        reg2 == IF edit THEN DictRegistry(f.dict) ELSE reg
    IN [registry |-> reg2,
        edit |-> edit,
        none |-> FALSE,
        isList |-> reg2.isList,
        ret |-> [keys |-> reg2.keys, vals |-> reg2.vals],
        cache |-> f.cache,
        requested |-> f.requested]

(* fetch_station_data of _stations.py.                                      *)
ValueOf(v) ==
    IF v.kind = "dict" /\ v.value # Absent THEN v.value
    ELSE IF v.kind = "dict" THEN "<dict>"
    ELSE v.value

StartsWithAt(col) == col \in {"@id", "@type"}

FlattenProperty2(d, col, v) ==
    IF d = Raised THEN Raised
    ELSE IF StartsWithAt(col) THEN d
    ELSE IF col = "station" /\ v.kind # "str" THEN Raised
    ELSE LET val == IF col = "timestamp" THEN v.value
                    ELSE IF col = "station" THEN LastSegment(v.value)
                    ELSE ValueOf(v)
             col2 == IF v.kind = "dict" /\ v.unit # Absent
                     THEN col \o " (" \o Replace(v.unit, "wmoUnit:") \o ")"
                     ELSE col
         IN Grow(d, col2, IF col2 = "cloudLayers" /\ val = None THEN "[]" ELSE val)

RECURSIVE FlattenProperties2(_, _, _)
FlattenProperties2(d, props, i) ==
    IF i > Len(props) THEN d
    ELSE FlattenProperties2(FlattenProperty2(d, props[i].col, props[i].v), props, i + 1)

(* record.get('properties', {}): a record without properties adds only     *)
(* the location and the geometry.                                           *)
FlattenRecord2(d, record, info) ==
    IF d = Raised THEN Raised
    ELSE FlattenProperties2(
            Grow(Grow(d, "location", IF info.name # Absent THEN info.name ELSE None),
                 "geometry",
                 IF info.geometry # Absent THEN info.geometry ELSE "{}"),
            record.properties, 1)

RECURSIVE FlattenFeatures2(_, _, _, _)
FlattenFeatures2(d, features, info, i) ==
    IF i > Len(features) THEN d
    ELSE FlattenFeatures2(FlattenRecord2(d, features[i], info), features, info, i + 1)

(* Line 224: the dictionary starts with three empty columns.                *)
InitialDict2 ==
    [keys |-> <<"location", "geometry", "cloudLayers">>,
     vals |-> [k \in {"location", "geometry", "cloudLayers"} |-> <<>>]]

(* Lines 194-198: the start is begin itself, or None.                       *)
StartOf2(beginArg) == IF beginArg # NoTime THEN Some(IsoFormat(beginArg[1])) ELSE NoTime

stations_fetch_station_data(stationID, info_dict, beginArg, response) ==
    LET start == StartOf2(beginArg)
        d == FlattenFeatures2(InitialDict2, response.features, info_dict, 1)
        norm_d == Normalize(d)
    IN  IF info_dict.name = Absent
        THEN FetchOut(TRUE, FALSE, start, EmptyDict, EmptyDict, NoneDF)
        ELSE IF response.kind \in {"exception", "not_json"}
        THEN FetchOut(FALSE, TRUE, start, EmptyDict, EmptyDict, NoneDF)
        ELSE IF ~response.hasFeatures
        THEN FetchOut(FALSE, TRUE, start, EmptyDict, EmptyDict, NoneDF)
        ELSE IF d = Raised
        THEN FetchOut(TRUE, TRUE, start, EmptyDict, EmptyDict, NoneDF)
        ELSE FetchOut(FALSE, TRUE, start, d, norm_d, DataFrame(norm_d))

---------------------------------------------------------------------------
NoCall == [version |-> 0]
NoOut == [done |-> FALSE]

IdleSync ==
    /\ pc = "idle"
    /\ registry = NoRegistry
    /\ pipeColumns = TRUE
    /\ pipeExists = TRUE
    /\ editCalls = 0
    /\ begin = NoTime
    /\ stations = EmptyDict
    /\ fetched = <<>>
    /\ dataframes = EmptyDict
    /\ common_cols = <<>>
    /\ float_cols = <<>>
    /\ syncCalls = <<>>
    /\ success_dict = EmptyDict
    /\ result = NoResult

IdleFetch == call = NoCall /\ out = NoOut

IdleInfo ==
    /\ cache = <<>>
    /\ httpCount = <<>>
    /\ lastCall = <<>>

NoAnswer == [kind |-> "none", station |-> "", yes |-> FALSE]

IdleAsk ==
    /\ askPc = "idle"
    /\ askStations = EmptyDict
    /\ askRound = 0
    /\ askLast = NoAnswer
    /\ askEntered = <<>>
    /\ askParameters = NoRegistry

IdleGet ==
    /\ getVersion = 0
    /\ getParameters = NoRegistry
    /\ getEdits = 0
    /\ getOut = NoOut

---------------------------------------------------------------------------
(* Single calls of fetch_station_data (both versions): the inputs are drawn *)
(* by the initial state, the action applies the function.                   *)

NoKey == [kind |-> "absent", value |-> Absent, unit |-> Absent]
Optional(col, v) == IF v = NoKey THEN <<>> ELSE <<Prop(col, v)>>

TimestampShapes == {NoKey, JStr(Timestamp1)}
StationShapes(s) == {NoKey, JStr(StationURL(s)), JNull}
TemperatureShapes ==
    {NoKey, JObj("21", UnitCode), JObj("n/a", UnitCode), JObj("21", Absent), JNull}

FetchRecords(s) ==
    {NoProperties} \cup
    {Record(Optional("timestamp", ts) \o Optional("station", st) \o Optional("temperature", tp)) :
        ts \in TimestampShapes, st \in StationShapes(s), tp \in TemperatureShapes}

FullRecord(s) ==
    Record(<<Prop("timestamp", JStr(Timestamp1)), Prop("station", JStr(StationURL(s))),
             Prop("temperature", JObj("21", UnitCode))>>)

NamedInfo(s) == [name |-> StationName(s), geometry |-> "Point"]
NoSyncTime == [raised |-> FALSE, value |-> NoTime]
NoLookup == [ok |-> FALSE, name |-> Absent, geometry |-> Absent]

FetchBegins == {NoTime, Some(30), Some(54)}
FetchSyncTimes == SyncTimes \cup {[raised |-> FALSE, value |-> Some(72)]}

Call(version, info, syncTime, beginArg, response, lookup) ==
    [version |-> version, stationID |-> "KATL", info |-> info, syncTime |-> syncTime,
     begin |-> beginArg, response |-> response, lookup |-> lookup]

(* Calls that vary the time window and the failures of the request.         *)
WindowResponses ==
    {ResponseException, ResponseNotJson, ResponseNoFeatures, ResponseOf(<<FullRecord("KATL")>>)}
WindowCalls ==
    {Call(1, info, syncTime, b, response, NoLookup) :
        info \in Infos("KATL"), syncTime \in FetchSyncTimes, b \in FetchBegins,
        response \in WindowResponses}
    \cup
    {Call(2, NoInfo, NoSyncTime, b, response, lookup) :
        b \in FetchBegins, response \in WindowResponses, lookup \in InfoResponses("KATL")}

(* Calls that vary the observation records.                                 *)
FlattenCalls ==
    {Call(v, NamedInfo("KATL"), NoSyncTime, NoTime, ResponseOf(f), NoLookup) :
        v \in {1, 2}, f \in SeqsUpTo(FetchRecords("KATL"), MaxRecords)}

InitFetch ==
    /\ IdleSync
    /\ IdleAsk
    /\ IdleGet
    /\ call \in WindowCalls \cup FlattenCalls
    /\ out = NoOut
    /\ cache \in {EmptyDict, DictSet(EmptyDict, "KATL", NamedInfo("KATL"))}
    /\ call.version = 1 => cache = EmptyDict
    /\ call \in FlattenCalls /\ call.version = 2 => cache # EmptyDict
    /\ httpCount = [s \in {"KATL"} |-> 0]
    /\ lastCall = <<>>

Done(r) == [done |-> TRUE] @@ r

(* fetch_station_data of __init__.py, called once.                          *)
FetchStationData ==
    /\ call.version = 1
    /\ ~out.done
    /\ out' = Done(fetch_station_data(call.stationID, call.info, call.syncTime,
                                      call.begin, call.response))
    /\ UNCHANGED <<call, cache, httpCount, lastCall>>

(* fetch_station_data of _stations.py, called once: it looks the station   *)
(* up through the cache first.                                              *)
StationsFetchStationData ==
    /\ call.version = 2
    /\ ~out.done
    /\ LET g == cached_get_station_info(cache, call.stationID, call.lookup)
       IN /\ cache' = g.cache
          /\ httpCount' = [httpCount EXCEPT ![call.stationID] = @ + (IF g.requested THEN 1 ELSE 0)]
          /\ out' = Done(stations_fetch_station_data(call.stationID, g.ret, call.begin,
                                                     call.response))
    /\ UNCHANGED <<call, lastCall>>

NextFetch ==
    \/ FetchStationData /\ UNCHANGED <<syncVars, askVars, getVars>>
    \/ StationsFetchStationData /\ UNCHANGED <<syncVars, askVars, getVars>>

SpecFetch == InitFetch /\ [][NextFetch]_vars

---------------------------------------------------------------------------
(* Repeated calls of get_station_info of _stations.py.                      *)

NoLastCall == [n |-> 0, station |-> "", ret |-> NoInfo, requested |-> FALSE]

(* The API may answer differently from one request to the next.             *)
InfoAnswers(s) ==
    InfoResponses(s) \cup {[ok |-> TRUE, name |-> StationName(s) \o " Airport", geometry |-> "Point"]}

InitInfo ==
    /\ IdleSync
    /\ IdleFetch
    /\ IdleAsk
    /\ IdleGet
    /\ cache = EmptyDict
    /\ httpCount = [s \in StationSet |-> 0]
    /\ lastCall = NoLastCall

GetStationInfo(s) ==
    /\ lastCall.n < MaxCalls
    /\ \E response \in InfoAnswers(s) :
          LET g == cached_get_station_info(cache, s, response)
          IN /\ cache' = g.cache
             /\ httpCount' = [httpCount EXCEPT ![s] = @ + (IF g.requested THEN 1 ELSE 0)]
             /\ lastCall' = [n |-> lastCall.n + 1, station |-> s, ret |-> g.ret,
                             requested |-> g.requested]

NextInfo == (\E s \in StationSet : GetStationInfo(s)) /\ UNCHANGED <<syncVars, fetchVars, askVars, getVars>>

SpecInfo == InitInfo /\ [][NextInfo]_vars

---------------------------------------------------------------------------
(* ask_for_stations (the same text in _stations.py and __init__.py).        *)

(* name.lstrip().rstrip() of a station name as the API returns it. *)
Strip(x) ==
    IF \E s \in Range(AllStationIDs) : x \in {" " \o StationName(s), " " \o StationName(s) \o " "}
    THEN StationName(CHOOSE s \in Range(AllStationIDs) :
                        x \in {" " \o StationName(s), " " \o StationName(s) \o " "})
    ELSE RStrip(x)

(* get_state_stations: every feature with an id and a name becomes a        *)
(* station; its geometry is None when the feature has none.                 *)
RECURSIVE StateStationsFrom(_, _, _)
StateStationsFrom(features, acc, i) ==
    IF i > Len(features) THEN acc
    ELSE LET f == features[i]
         IN IF f.id = Absent \/ f.name = Absent
            THEN StateStationsFrom(features, acc, i + 1)
            ELSE StateStationsFrom(features,
                    DictSet(acc, LastSegment(f.id),
                            [name |-> Strip(f.name),
                             geometry |-> IF f.geometry = Absent THEN None ELSE f.geometry]),
                    i + 1)

get_state_stations(answer) ==
    IF ~answer.hasFeatures THEN EmptyDict
    ELSE StateStationsFrom(answer.features, EmptyDict, 1)

(* Lines 86-113 for one station ID: the entry added to stations, or NoInfo  *)
(* when the lookup failed and the station is skipped.                       *)
AskedInfo(response, good, label) ==
    IF ~response.ok THEN NoInfo
    ELSE IF response.name = Absent THEN NoInfo
    ELSE [name |-> IF good THEN RStrip(response.name) ELSE label,
          geometry |-> response.geometry]

(* What the user types and what the API answers. *)
MaxPrompts == 2
MaxRounds == 2
StateAbbrevs == {"GA"}
Labels == {"", "Home"}
NotFound == [ok |-> FALSE, name |-> Absent, geometry |-> Absent]
AskResponses(id) == IF id \in StateAbbrevs THEN {NotFound} ELSE InfoResponses(id)

StateFeatures(s) ==
    {[id |-> StationURL(s), name |-> " " \o StationName(s) \o " ", geometry |-> "Point"],
     [id |-> StationURL(s), name |-> StationName(s), geometry |-> Absent],
     [id |-> StationURL(s), name |-> Absent, geometry |-> "Point"],
     [id |-> Absent, name |-> StationName(s), geometry |-> "Point"]}
StateAnswers ==
    {[hasFeatures |-> FALSE, features |-> <<>>]} \cup
    UNION {{[hasFeatures |-> TRUE, features |-> f] :
              f \in {g \in [1..Len(ids) -> UNION {StateFeatures(s) : s \in Range(ids)}] :
                        \A i \in 1..Len(ids) : g[i] \in StateFeatures(ids[i])}} : ids \in Prefixes}

Answer(kind, station, yes) == [kind |-> kind, station |-> station, yes |-> yes]
Entry(input, named) == [input |-> input, named |-> named]

(* The call starts at line 70 with an empty collection. *)
InitAsk ==
    /\ IdleSync
    /\ IdleFetch
    /\ IdleInfo
    /\ IdleGet
    /\ askPc = "prompt"
    /\ askStations = EmptyDict
    /\ askRound = 0
    /\ askLast = NoAnswer
    /\ askEntered = <<>>
    /\ askParameters \in Registries

(* Lines 73-75: an empty input ends the round. *)
AskStop ==
    /\ askPc = "prompt"
    /\ askPc' = "confirm"
    /\ askLast' = Answer("stop", "", FALSE)
    /\ UNCHANGED <<askStations, askRound, askEntered, askParameters>>

(* Lines 77-84: a state abbreviation, confirmed: the collection becomes the *)
(* state's stations and the round ends.                                     *)
AskState(ab) ==
    /\ askPc = "prompt"
    /\ Len(askEntered) < MaxPrompts
    /\ \E answer \in StateAnswers :
          /\ askStations' = get_state_stations(answer)
          /\ askEntered' = Append(askEntered, Entry(ab, Range(get_state_stations(answer).keys)))
    /\ askPc' = "confirm"
    /\ askLast' = Answer("state", ab, TRUE)
    /\ UNCHANGED <<askRound, askParameters>>

(* Lines 86-113: a station ID (or a state abbreviation the user did not     *)
(* confirm) is looked up; the station is added unless the lookup failed.    *)
AskStation(id) ==
    /\ askPc = "prompt"
    /\ Len(askEntered) < MaxPrompts
    /\ \E response \in AskResponses(id), good \in BOOLEAN, label \in Labels :
          LET info == AskedInfo(response, good, label)
          IN IF info = NoInfo
             THEN /\ askStations' = askStations
                  /\ askEntered' = Append(askEntered, Entry(id, {}))
                  /\ askLast' = Answer("lookup", id, FALSE)
             ELSE /\ askStations' = DictSet(askStations, id, info)
                  /\ askEntered' = Append(askEntered, Entry(id, {id}))
                  /\ askLast' = Answer("label", id, good)
    /\ UNCHANGED <<askPc, askRound, askParameters>>

(* Lines 115-121, confirmed: the collection is returned. *)
AskConfirm ==
    /\ askPc = "confirm"
    /\ askPc' = "returned"
    /\ askLast' = Answer("confirm", "", TRUE)
    /\ UNCHANGED <<askStations, askRound, askEntered, askParameters>>

(* Lines 116-119, declined: parameters['noaa']['stations'] is set to {},    *)
(* which raises KeyError when parameters has no 'noaa' key, and the         *)
(* function calls itself.                                                   *)
AskDecline ==
    /\ askPc = "confirm"
    /\ askRound < MaxRounds
    /\ askLast' = Answer("confirm", "", FALSE)
    /\ IF ~askParameters.present
       THEN /\ askPc' = "raised"
            /\ UNCHANGED <<askStations, askRound, askEntered, askParameters>>
       ELSE /\ askParameters' = DictRegistry(EmptyDict)
            /\ askPc' = "prompt"
            /\ askStations' = EmptyDict
            /\ askEntered' = <<>>
            /\ askRound' = askRound + 1

NextAsk ==
    \/ AskStop /\ UNCHANGED <<syncVars, fetchVars, infoVars, getVars>>
    \/ (\E ab \in StateAbbrevs : AskState(ab)) /\ UNCHANGED <<syncVars, fetchVars, infoVars, getVars>>
    \/ (\E id \in StationSet \cup StateAbbrevs : AskStation(id))
          /\ UNCHANGED <<syncVars, fetchVars, infoVars, getVars>>
    \/ AskConfirm /\ UNCHANGED <<syncVars, fetchVars, infoVars, getVars>>
    \/ AskDecline /\ UNCHANGED <<syncVars, fetchVars, infoVars, getVars>>

SpecAsk == InitAsk /\ [][NextAsk]_vars

---------------------------------------------------------------------------
(* Single calls of get_stations (both versions).                            *)

Lookups ==
    {l \in [StationSet -> UNION {InfoResponses(s) : s \in StationSet}] :
        \A s \in StationSet : l[s] \in InfoResponses(s)}

InitGet ==
    /\ IdleSync
    /\ IdleFetch
    /\ IdleAsk
    /\ getVersion \in {1, 2}
    /\ getParameters \in Registries
    /\ getEdits = 0
    /\ getOut = NoOut
    /\ cache \in {EmptyDict, DictSet(EmptyDict, "KATL", NamedInfo("KATL"))}
    /\ getVersion = 1 => cache = EmptyDict
    /\ httpCount = [s \in StationSet |-> 0]
    /\ lastCall = <<>>

GotStations(g) == [done |-> TRUE, none |-> g.none, isList |-> g.isList, ret |-> g.ret]

(* get_stations of __init__.py, called once. *)
GetStations ==
    /\ getVersion = 1
    /\ ~getOut.done
    /\ \E lookup \in Lookups :
          LET g == get_stations(getParameters, lookup)
          IN /\ getParameters' = g.registry
             /\ getEdits' = getEdits + (IF g.edit THEN 1 ELSE 0)
             /\ getOut' = GotStations(g)
    /\ UNCHANGED <<getVersion, cache, httpCount, lastCall>>

(* get_stations of _stations.py, called once. *)
StationsGetStations ==
    /\ getVersion = 2
    /\ ~getOut.done
    /\ \E lookup \in Lookups :
          LET g == stations_get_stations(getParameters, cache, lookup)
          IN /\ getParameters' = g.registry
             /\ getEdits' = getEdits + (IF g.edit THEN 1 ELSE 0)
             /\ getOut' = GotStations(g)
             /\ cache' = g.cache
             /\ httpCount' = [s \in StationSet |->
                                httpCount[s] + (IF s \in g.requested THEN 1 ELSE 0)]
    /\ UNCHANGED <<getVersion, lastCall>>

NextGet ==
    \/ GetStations /\ UNCHANGED <<syncVars, fetchVars, askVars>>
    \/ StationsGetStations /\ UNCHANGED <<syncVars, fetchVars, askVars>>

SpecGet == InitGet /\ [][NextGet]_vars

Init == InitSync /\ IdleFetch /\ IdleInfo /\ IdleAsk /\ IdleGet

Next ==
    \/ SyncStart /\ UNCHANGED <<fetchVars, infoVars, askVars, getVars>>
    \/ (\E s \in StationSet : DoFetch(s)) /\ UNCHANGED <<fetchVars, infoVars, askVars, getVars>>
    \/ Reconcile /\ UNCHANGED <<fetchVars, infoVars, askVars, getVars>>
    \/ Bootstrap /\ UNCHANGED <<fetchVars, infoVars, askVars, getVars>>
    \/ SyncStation /\ UNCHANGED <<fetchVars, infoVars, askVars, getVars>>
    \/ Summary /\ UNCHANGED <<fetchVars, infoVars, askVars, getVars>>

Spec == Init /\ [][Next]_vars

---------------------------------------------------------------------------
(* Properties of sync.                                                      *)

StationCalls == {i \in 1..Len(syncCalls) : syncCalls[i].kind = "station"}
BootstrapCalls == {i \in 1..Len(syncCalls) : syncCalls[i].kind = "bootstrap"}
SyncedOk(s) == \E i \in StationCalls : syncCalls[i].station = s /\ syncCalls[i].success
Configured == Range(stations.keys)

(* C1: a single station's failure never aborts sync: whatever the stations  *)
(* configured and whatever each station's fetch does (exception, bad JSON,  *)
(* no 'features', exception while flattening, metadata without a name),     *)
(* sync does not raise.                                                     *)
C1_StationFailureNeverAbortsSync ==
    Configured # {} => pc # "raised"

(* C2: in the summary 'Synced from N stations, M failed.', N is the number  *)
(* of configured stations and M the number of them that did not sync        *)
(* successfully.                                                            *)
C2_SummaryCountsEveryStation ==
    pc = "done" =>
        /\ result.total = Cardinality(Configured)
        /\ result.failed = Cardinality({s \in Configured : ~SyncedOk(s)})

(* C3: every table handed to pipe.sync in the per-station loop has as its   *)
(* column list the lexicographically sorted intersection of the column sets *)
(* of all non-empty per-station results (neither None nor zero-column); if  *)
(* every result is empty the list is empty.                                 *)
NonEmptyResults ==
    {s \in Configured : fetched[s].done /\ ~fetched[s].df.none /\ fetched[s].df.columns # <<>>}
AllResultColumns == UNION {Range(fetched[s].df.columns) : s \in NonEmptyResults}
ColumnIntersection ==
    {c \in AllResultColumns : \A s \in NonEmptyResults : c \in Range(fetched[s].df.columns)}
StrictlyAscending(cols) ==
    \A i, j \in 1..Len(cols) : i < j => StrLess(cols[i], cols[j])

C3_SyncedColumnsAreSortedIntersection ==
    \A i \in StationCalls :
        /\ Range(syncCalls[i].df.columns) = ColumnIntersection
        /\ StrictlyAscending(syncCalls[i].df.columns)
        /\ syncCalls[i].df.columns = common_cols

(* C3's case: two stations fetched non-empty tables with different columns, *)
(* and the table synced for one of them has fewer columns than it fetched.  *)
C3_Witness ==
    /\ pc = "done"
    /\ Cardinality(NonEmptyResults) >= 2
    /\ \E i \in StationCalls :
          /\ Len(syncCalls[i].df.columns) > 0
          /\ Len(syncCalls[i].df.columns) < Len(fetched[syncCalls[i].station].df.columns)

(* C7: the boolean sync returns is true iff some pipe.sync call of the      *)
(* per-station loop reported success.                                       *)
C7_ReturnsTrueIffAStationSynced ==
    pc = "done" =>
        /\ result.returned
        /\ result.ok <=> \E i \in StationCalls : syncCalls[i].success

(* C7's case: the bootstrap sync succeeded, no station's sync did, and sync *)
(* returned false.                                                          *)
C7_Witness ==
    /\ pc = "done"
    /\ ~result.ok
    /\ \E i \in BootstrapCalls : syncCalls[i].success
    /\ StationCalls # {}

(* C8: the columns cast to float are the common columns other than label,   *)
(* timestamp, station, location and geometry: in every table kept, those    *)
(* five hold the fetched values and every other common column holds their   *)
(* float casts; a station whose selection or cast raises becomes a failed   *)
(* station (a None table), whatever the other stations' tables are.         *)
CastRaises(df) ==
    \/ \E c \in Range(common_cols) : c \notin Range(df.columns)
    \/ \E c \in Range(common_cols) \ {"label", "timestamp", "station", "location", "geometry"} :
          \E k \in 1..Len(df.data[c]) : ~Castable(df.data[c][k])

C8_FloatCastOfCommonColumns ==
    pc \in {"bootstrap", "loop", "done"} =>
        /\ Range(float_cols) =
              Range(common_cols) \ {"label", "timestamp", "station", "location", "geometry"}
        /\ \A s \in Configured :
              IF fetched[s].df.none THEN ~DictHas(dataframes, s)
              ELSE /\ DictHas(dataframes, s)
                   /\ IF CastRaises(fetched[s].df) THEN dataframes.vals[s].none
                      ELSE /\ ~dataframes.vals[s].none
                           /\ dataframes.vals[s].columns = common_cols
                           /\ \A c \in Range(common_cols) :
                                IF c \in {"label", "timestamp", "station", "location", "geometry"}
                                THEN dataframes.vals[s].data[c] = fetched[s].df.data[c]
                                ELSE \A k \in 1..Len(fetched[s].df.data[c]) :
                                        dataframes.vals[s].data[c][k]
                                            = CastFloat(fetched[s].df.data[c][k])

(* C8's case: one station's cast raised and it became a failed station,     *)
(* while another station's table was cast and synced.                       *)
C8_Witness ==
    /\ pc = "done"
    /\ \E s \in Configured :
          ~fetched[s].df.none /\ DictHas(dataframes, s) /\ dataframes.vals[s].none
    /\ \E i \in StationCalls :
          \E c \in Range(float_cols) : syncCalls[i].df.data[c] = <<"21.0">>

---------------------------------------------------------------------------
(* Properties of one call of fetch_station_data.                            *)

Returned == out.done /\ ~out.raised /\ ~out.df.none
Observations == Len(call.response.features)
ColumnLength(k) == Len(out.d.vals[k])
Columns == Range(out.d.keys)
Kept == Range(out.norm_d.keys)
CountOfLength(l) == Cardinality({k \in Columns : ColumnLength(k) = l})
IsModal(l) == \A k \in Columns : CountOfLength(ColumnLength(k)) <= CountOfLength(l)

(* C4: the kept columns are exactly those whose length is the modal (most   *)
(* common) column length of the station's column dictionary; the columns of *)
(* any other length are removed, and a kept column keeps its values (in the *)
(* value returned, its place and its length).                               *)
C4_KeptColumnsHaveModalLength ==
    Returned =>
        /\ \E l \in {ColumnLength(k) : k \in Columns} \cup {0} :
              /\ IsModal(l)
              /\ Kept = {k \in Columns : ColumnLength(k) = l}
        /\ \A k \in Kept : out.norm_d.vals[k] = out.d.vals[k]
        /\ out.norm_d.keys = SelectSeq(out.d.keys, LAMBDA k : k \in Kept)
        /\ out.df.columns = out.norm_d.keys
        /\ \A k \in Kept : Len(out.df.data[k]) = ColumnLength(k)

(* C4's case: columns of three different lengths, of which some are kept    *)
(* and some are removed.                                                    *)
C4_Witness ==
    /\ Returned
    /\ Cardinality({ColumnLength(k) : k \in Columns}) >= 3
    /\ Kept # {}
    /\ Kept # Columns

(* C5 as stated: a column shorter than the number of observations is        *)
(* dropped, and the columns produced for every observation remain.          *)
C5_InconsistentColumnsDropped ==
    Returned =>
        Kept = {k \in Columns : ColumnLength(k) = Observations}

(* C5 amended: no column is padded or cut; the columns shorter than the     *)
(* number of observations are dropped, and the full-length columns remain,  *)
(* exactly when no other length is shared by more columns than the full     *)
(* length is; otherwise every full-length column is dropped.                *)
C5_DroppedUnlessOutnumbering ==
    Returned =>
        /\ \A k \in Kept : out.norm_d.vals[k] = out.d.vals[k]
        /\ IF IsModal(Observations)
           THEN Kept = {k \in Columns : ColumnLength(k) = Observations}
           ELSE \A k \in Kept : ColumnLength(k) # Observations

(* C5's case: a column present on only some observations is dropped while   *)
(* the full-length columns remain, the short columns being as many as the   *)
(* full-length ones.                                                        *)
C5_Witness ==
    /\ Returned
    /\ Observations >= 2
    /\ \E k \in Columns \ Kept : ColumnLength(k) > 0 /\ ColumnLength(k) < Observations
    /\ \E l \in 1..(Observations - 1) : CountOfLength(l) = CountOfLength(Observations)
    /\ "location" \in Kept

(* C6: the start of the observations request is T - 24h when no begin is    *)
(* given (T the station's last-synced time) and the explicit begin itself   *)
(* when begin is given.                                                     *)
C6_StartIsSyncTimeMinus24hOrBegin ==
    out.done /\ out.requested =>
        /\ call.begin # NoTime => out.start = Some(IsoFormat(call.begin[1]))
        /\ (call.version = 1 /\ call.begin = NoTime /\ ~call.syncTime.raised
                /\ call.syncTime.value # NoTime)
              => out.start = Some(IsoFormat(call.syncTime.value[1] - 24))

(* C10: with no begin and no last-synced time (get_sync_time returns None   *)
(* or raises) fetch_station_data of __init__.py does not fail on it: the    *)
(* start is None and the request is issued without a start bound (for a     *)
(* station whose info has the name the messages print).                     *)
NoWindow ==
    /\ call.version = 1
    /\ call.begin = NoTime
    /\ call.syncTime.raised \/ call.syncTime.value = NoTime

C10_NoSyncTimeFetchesEverything ==
    out.done /\ NoWindow =>
        /\ out.start = NoTime
        /\ call.info.name # Absent => out.requested
        /\ call.info.name # Absent /\ call.response = ResponseOf(<<FullRecord("KATL")>>)
              => ~out.raised /\ ~out.df.none

(* C10's case: get_sync_time raised, and the records were fetched.          *)
C10_Witness ==
    /\ out.done
    /\ NoWindow
    /\ call.syncTime.raised
    /\ out.requested
    /\ ~out.df.none
    /\ Len(out.df.columns) > 0

---------------------------------------------------------------------------
(* Properties of get_station_info of _stations.py.                          *)

CalledFor(s) == lastCall'.n = lastCall.n + 1 /\ lastCall'.station = s

(* C9: the cache only ever holds entries with a name; an entry, once        *)
(* stored, is never changed or removed; a call for a cached station returns *)
(* the entry without a request; a call for any other station issues one     *)
(* request, stores what it returns if and only if a name was obtained, and  *)
(* returns {} otherwise.                                                    *)
C9_StationInfoMemoized ==
    /\ [](\A s \in Range(cache.keys) : cache.vals[s].name # Absent)
    /\ [][\A s \in StationSet :
            /\ DictHas(cache, s) => DictHas(cache', s) /\ cache'.vals[s] = cache.vals[s]
            /\ CalledFor(s) /\ DictHas(cache, s) =>
                  /\ lastCall'.ret = cache.vals[s]
                  /\ httpCount' = httpCount
                  /\ cache' = cache
            /\ CalledFor(s) /\ ~DictHas(cache, s) =>
                  /\ httpCount'[s] = httpCount[s] + 1
                  /\ DictHas(cache', s) <=> lastCall'.ret.name # Absent
                  /\ DictHas(cache', s) => cache'.vals[s] = lastCall'.ret
                  /\ ~DictHas(cache', s) => lastCall'.ret = NoInfo
         ]_vars

(* C9's case: a lookup failed, the next one succeeded after a new request,  *)
(* and the last call was answered from the cache.                           *)
C9_Witness ==
    /\ lastCall.n = 3
    /\ ~lastCall.requested
    /\ lastCall.ret.name # Absent
    /\ httpCount[lastCall.station] = 2

---------------------------------------------------------------------------
(* The order of the pipe.sync calls of sync.                                *)

HasRow(s) == DictHas(dataframes, s) /\ ~dataframes.vals[s].none /\ Rows(dataframes.vals[s]) > 0
Position(s) == CHOOSE i \in 1..Len(stations.keys) : stations.keys[i] = s
FirstStationWithRow ==
    CHOOSE s \in Configured :
        HasRow(s) /\ \A t \in Configured : HasRow(t) => Position(s) <= Position(t)
FirstRow(df) == [c \in Range(df.columns) |-> <<df.data[c][1]>>]

(* C11: when the fetch phase is over and the pipe does not exist, exactly   *)
(* one bootstrap call pipe.sync(first row, force=True) is made, for the     *)
(* first station in station order whose table has a row, and it comes       *)
(* before every per-station call; when the pipe exists or no station has a  *)
(* row, no bootstrap call is made; no other step makes a bootstrap call.    *)
C11_BootstrapOnceBeforeStations ==
    /\ [](BootstrapCalls \subseteq {1})
    /\ [][IF pc = "bootstrap" /\ ~pipeExists /\ (\E s \in Configured : HasRow(s))
          THEN /\ Len(syncCalls') = 1
               /\ syncCalls'[1].kind = "bootstrap"
               /\ syncCalls'[1].force
               /\ syncCalls'[1].station = FirstStationWithRow
               /\ syncCalls'[1].df.columns = dataframes.vals[FirstStationWithRow].columns
               /\ syncCalls'[1].df.data = FirstRow(dataframes.vals[FirstStationWithRow])
               /\ pc' = "loop"
          ELSE /\ {i \in 1..Len(syncCalls') : syncCalls'[i].kind = "bootstrap"} = BootstrapCalls
               /\ pc = "bootstrap" => syncCalls' = syncCalls /\ syncCalls = <<>>
         ]_vars

(* C11's case: the pipe did not exist, the first station's table had no    *)
(* row, the bootstrap call was made for the second one, and the             *)
(* per-station calls followed it.                                           *)
C11_Witness ==
    /\ pc = "done"
    /\ Len(syncCalls) >= 2
    /\ DictHas(dataframes, stations.keys[1])
    /\ syncCalls[1].kind = "bootstrap"
    /\ syncCalls[1].station # stations.keys[1]
    /\ \A i \in 2..Len(syncCalls) : syncCalls[i].kind = "station" /\ ~syncCalls[i].force

---------------------------------------------------------------------------
(* Properties of ask_for_stations.                                          *)

NamedThisRound == UNION {askEntered[i].named : i \in 1..Len(askEntered)}
Declined == askLast.kind = "confirm" /\ ~askLast.yes

(* C12: when the user declines the final confirmation, the pipe's stored    *)
(* registry is reset to empty and prompting starts over with an empty       *)
(* collection; the dictionary finally returned holds only stations entered  *)
(* during the last, confirmed round, each with a name, and no station whose *)
(* lookup failed.                                                           *)
C12_DeclineRestartsWithEmptyRegistry ==
    /\ Declined =>
          /\ askPc = "prompt"
          /\ askParameters = DictRegistry(EmptyDict)
          /\ askStations = EmptyDict
          /\ askEntered = <<>>
    /\ askPc = "returned" =>
          \A s \in Range(askStations.keys) :
              /\ s \in NamedThisRound
              /\ askStations.vals[s].name # Absent

---------------------------------------------------------------------------
(* Properties of get_stations.                                              *)

Lacking ==
    IF getParameters.isList THEN Range(getParameters.keys)
    ELSE {s \in Range(getParameters.keys) : getParameters.vals[s].name = Absent}
Stored(reg) == [keys |-> reg.keys, vals |-> reg.vals]

(* C13: get_stations writes parameters['noaa']['stations'] and calls        *)
(* pipe.edit (once) if and only if some registered station lacked a name,   *)
(* every station of a list-form registry lacking one; the registry written  *)
(* is a dict keyed by the same station IDs in which the stations that had a *)
(* name keep their entry, and it is what is returned; when no station       *)
(* lacks a name the registry is left as it is, it is what is returned (None *)
(* or {} when there is no 'noaa' entry at all) and pipe.edit is not called. *)
C13_WritesIffAStationLackedName ==
    [][~getOut.done /\ getOut'.done =>
          IF Lacking # {}
          THEN /\ getEdits' = getEdits + 1
               /\ getParameters'.present /\ ~getParameters'.isList
               /\ getParameters'.keys = getParameters.keys
               /\ \A s \in Range(getParameters.keys) \ Lacking :
                     getParameters'.vals[s] = getParameters.vals[s]
               /\ ~getOut'.none
               /\ getOut'.ret = Stored(getParameters')
          ELSE /\ getEdits' = getEdits
               /\ getParameters' = getParameters
               /\ getOut'.ret = Stored(getParameters)
               /\ getOut'.isList = getParameters.isList
               /\ getOut'.none = (getVersion = 1 /\ ~getParameters.present)
      ]_vars

(* C13's case: the pipe was edited once, and the registry written holds a   *)
(* station with a name next to one whose lookup failed and which was left   *)
(* with an empty entry.                                                     *)
C13_Witness ==
    /\ getOut.done
    /\ getEdits = 1
    /\ \E s, t \in Range(getParameters.keys) :
          /\ getParameters.vals[s].name # Absent
          /\ getParameters.vals[t] = NoInfo

---------------------------------------------------------------------------
(* The tie-breaking of the length normalization.                            *)

ModalColumns == {k \in Columns : IsModal(ColumnLength(k))}
IndexOf(k) == CHOOSE i \in 1..Len(out.d.keys) : out.d.keys[i] = k
FirstModalColumn ==
    CHOOSE k \in ModalColumns : \A j \in ModalColumns : IndexOf(k) <= IndexOf(j)
TiedLengths == {ColumnLength(k) : k \in ModalColumns}

(* C14: when several column lengths are equally most common, the kept       *)
(* length is the one that appears first in column insertion order; as       *)
(* 'location' is the first column and has one value per observation, a tie  *)
(* that involves the number of observations keeps the columns of that       *)
(* length.                                                                  *)
C14_FirstModalLengthWinsTies ==
    Returned /\ Columns # {} =>
        /\ Kept = {k \in Columns : ColumnLength(k) = ColumnLength(FirstModalColumn)}
        /\ out.d.keys[1] = "location"
        /\ ColumnLength("location") = Observations
        /\ Observations \in TiedLengths =>
              Kept = {k \in Columns : ColumnLength(k) = Observations}

(* C14's case: two lengths are equally most common, one of them the number  *)
(* of observations, and the columns of the other, shorter, length are       *)
(* removed although they are as many.                                       *)
C14_Witness ==
    /\ Returned
    /\ Cardinality(TiedLengths) >= 2
    /\ Observations \in TiedLengths
    /\ Kept = {k \in Columns : ColumnLength(k) = Observations}
    /\ \E k \in ModalColumns \ Kept : ColumnLength(k) < Observations

====
